---- MODULE Spec2Model ----
(***************************************************************************)
(* Genesis Plus GX sound hardware (core/sound/sound.c): the lazy FM sample *)
(* scheduler (fm_update), the per-frame mixer (sound_update), the backend  *)
(* selection (sound_init), reset and the save-state context.               *)
(*                                                                         *)
(* Cycle counters are uint32 in the source.  Every cycle value of this     *)
(* model stays far below 2^31, so no operation wraps and the arithmetic is *)
(* the plain integer arithmetic of the source expressions.                 *)
(***************************************************************************)
EXTENDS Integers, Sequences, FiniteSets, TLC

(***************************************************************************)
(* Bounds of the model.                                                    *)
(***************************************************************************)
\* largest number of whole chip samples a cycle target spans
MaxSamples == 1
\* sound_update calls in one run
MaxFrames == 2
\* register accesses (fm_write, fm_read, fm_reset) in one run
MaxOps == 2
\* sound_reset calls in one run
MaxResets == 2
\* frames of a constant-length run (SpecSteady)
MaxSteady == 90
\* frames of a run of varying lengths (SpecDrift)
MaxDrift == 3
\* frames of a run that fills the buffer (SpecCapacity)
MaxFill == 1

(***************************************************************************)
(* Program constants.                                                      *)
(***************************************************************************)
\* master cycles per sample of each chip (sound_init)
RatioYM3438 == 6 * 7
RatioYM2612 == 144 * 7
RatioYM2413 == 72 * 15
\* internal clocks of the YM3438 per accumulated output sample
AccmSlots == 24
\* output scale of YM3438_Update
YM3438Gain == 11
\* size of fm_buffer in stereo pairs without the YM3438 core
FmBufferPairs == 1080
\* with the YM3438 core fm_buffer is this many times larger
FmBufferScale == 24
\* the frame length of the documented scenario
ScenarioCycles == 50000
\* fm_ptr before sound_reset has pointed it at fm_buffer: the null pointer
NullPtr == -1

\* register writes <<address, data>>: address 0 sets the level of the left
\* output, address 1 the level of the right output
Writes == {<<0, 100>>, <<1, -3>>}
\* the addresses a status read is made at
ReadAddrs == {0}
\* config.fm_preamp values (percent)
Preamps == {50, 100}
\* hardware classes: Mega Drive and two that are not
HwClasses == {"MD", "PBC", "SMS"}
\* a configuration: hardware class, build flag, and the config fields read
Config(hw, have, pref, hq, preamp) ==
  [hw |-> hw, have |-> have,
   config |-> [ym3438 |-> pref, hq_fm |-> hq, fm_preamp |-> preamp]]
\* the configurations explored: every engine, with and without the YM3438
\* core compiled in, both mixing modes and both amplifications
Configs ==
  {Config("MD", TRUE, TRUE, TRUE, 50),
   Config("MD", TRUE, FALSE, FALSE, 50),
   Config("MD", FALSE, TRUE, TRUE, 100),
   Config("SMS", FALSE, FALSE, FALSE, 100),
   Config("PBC", TRUE, TRUE, TRUE, 50)}

VARIABLES
  \* configuration and build, read-only to this file
  system_hw, config, HAVE_YM3438_CORE,
  \* statics of sound.c
  fm_buffer, fm_last, fm_ptr,
  fm_cycles_ratio, fm_cycles_start, fm_cycles_count,
  YM_Reset, YM_Update, YM_Write, YM_Read,
  ym3438, ym3438_accm, ym3438_sample, ym3438_cycles,
  \* state of the collaborating chips
  ym2612, ym2413, psg,
  \* external calls made by the last handler, in order
  calls,
  \* the last handler invoked, with its arguments
  op,
  \* history kept for the properties
  frames, ops, resets, maxTarget, requested, firstFrame, emitted, mix,
  residuals, totals,
  \* the save-state: the bytes written by the last save, the instance that
  \* wrote them, and that instance continued with the same later inputs
  saved, orig, twin

envVars == <<system_hw, config, HAVE_YM3438_CORE>>
sndVars == <<fm_buffer, fm_last, fm_ptr, fm_cycles_ratio, fm_cycles_start,
             fm_cycles_count, YM_Reset, YM_Update, YM_Write, YM_Read,
             ym3438, ym3438_accm, ym3438_sample, ym3438_cycles,
             ym2612, ym2413, psg, calls>>
histVars == <<op, frames, ops, resets, maxTarget, requested, firstFrame,
              emitted, mix, residuals, totals>>
saveVars == <<saved, orig, twin>>
vars == <<envVars, sndVars, histVars, saveVars>>

(***************************************************************************)
(* Helpers.                                                                *)
(***************************************************************************)
\* C integer division of a by b > 0: truncation toward zero
CDiv(a, b) == IF a >= 0 THEN a \div b ELSE -((-a) \div b)

Max(a, b) == IF a >= b THEN a ELSE b

\* ceil(a / b) for a >= 0, b > 0
CeilDiv(a, b) == (a + b - 1) \div b

RECURSIVE Gcd(_, _)
Gcd(a, b) == IF b = 0 THEN a ELSE Gcd(b, a % b)

Lcm(a, b) == (a * b) \div Gcd(a, b)

Zero2 == <<0, 0>>

\* the stereo pair at pair index i (from 0) of the buffer; the static array
\* is zero-initialised, so pairs never written read as zero
BufAt(buf, i) == IF i + 1 <= Len(buf) THEN buf[i + 1] ELSE Zero2

\* the buffer after writing the pairs at pair index i0 onwards
BufWrite(buf, i0, pairs) ==
  [j \in 1..Max(Len(buf), i0 + Len(pairs)) |->
     IF j > i0 /\ j <= i0 + Len(pairs) THEN pairs[j - i0] ELSE BufAt(buf, j - 1)]

\* n copies of pair
Repeat(pair, n) == [j \in 1..n |-> pair]

\* the module's statics as one record
Cur ==
  [fm_buffer |-> fm_buffer, fm_last |-> fm_last, fm_ptr |-> fm_ptr,
   fm_cycles_ratio |-> fm_cycles_ratio, fm_cycles_start |-> fm_cycles_start,
   fm_cycles_count |-> fm_cycles_count,
   YM_Reset |-> YM_Reset, YM_Update |-> YM_Update, YM_Write |-> YM_Write,
   YM_Read |-> YM_Read,
   ym3438 |-> ym3438, ym3438_accm |-> ym3438_accm,
   ym3438_sample |-> ym3438_sample, ym3438_cycles |-> ym3438_cycles,
   ym2612 |-> ym2612, ym2413 |-> ym2413, psg |-> psg, calls |-> calls]

\* the statics take the values of record n
Commit(n) ==
  /\ fm_buffer' = n.fm_buffer
  /\ fm_last' = n.fm_last
  /\ fm_ptr' = n.fm_ptr
  /\ fm_cycles_ratio' = n.fm_cycles_ratio
  /\ fm_cycles_start' = n.fm_cycles_start
  /\ fm_cycles_count' = n.fm_cycles_count
  /\ YM_Reset' = n.YM_Reset
  /\ YM_Update' = n.YM_Update
  /\ YM_Write' = n.YM_Write
  /\ YM_Read' = n.YM_Read
  /\ ym3438' = n.ym3438
  /\ ym3438_accm' = n.ym3438_accm
  /\ ym3438_sample' = n.ym3438_sample
  /\ ym3438_cycles' = n.ym3438_cycles
  /\ ym2612' = n.ym2612
  /\ ym2413' = n.ym2413
  /\ psg' = n.psg
  /\ calls' = n.calls

\* a handler starts with an empty call log
Enter(s) == [s EXCEPT !.calls = <<>>]

Log(s, c) == [s EXCEPT !.calls = Append(s.calls, c)]

(***************************************************************************)
(* The chips behind the capability pointers.  A chip holds the level of    *)
(* its left and right output; a register write sets one of them, a reset   *)
(* returns both to zero, and generating emits the held levels.             *)
(***************************************************************************)
ChipWrite(chip, a, v) == [chip EXCEPT ![a + 1] = v]

\* one internal clock of the Nuked OPN2: the output of this clock
OPN2_Clock(chip) == chip

RECURSIVE SumAccm(_, _, _)
SumAccm(accm, ch, j) ==
  IF j = 0 THEN 0 ELSE accm[j][ch] + SumAccm(accm, ch, j - 1)

YM3438_Reset(s) == Log([s EXCEPT !.ym3438 = Zero2], <<"OPN2_Reset">>)

\* YM3438_Update: length clocks, one buffer pair per clock; the sample is
\* refreshed every 24 clocks from the accumulators.  A run of more than one
\* clock is the run of its first half followed by the run of the rest; the
\* test on ym3438_cycles, which is always below 24, has the first half
\* evaluated before the second is started.
RECURSIVE YM3438_Run(_, _, _)
YM3438_Run(s, out, length) ==
  IF length = 0 THEN [s |-> s, out |-> out]
  ELSE IF length > 1
  THEN LET a == YM3438_Run(s, <<>>, length \div 2)
       IN IF a.s.ym3438_cycles < AccmSlots
          THEN LET b == YM3438_Run(a.s, <<>>, length - length \div 2)
               IN [s |-> b.s, out |-> out \o a.out \o b.out]
          ELSE a
  ELSE
    LET accm == [s.ym3438_accm EXCEPT ![s.ym3438_cycles + 1] = OPN2_Clock(s.ym3438)]
        cyc == (s.ym3438_cycles + 1) % AccmSlots
        smp == IF cyc = 0
               THEN <<SumAccm(accm, 1, AccmSlots), SumAccm(accm, 2, AccmSlots)>>
               ELSE s.ym3438_sample
        s2 == [s EXCEPT !.ym3438_accm = accm, !.ym3438_cycles = cyc,
                        !.ym3438_sample = smp]
    IN YM3438_Run(s2, Append(out, <<smp[1] * YM3438Gain, smp[2] * YM3438Gain>>),
                  length - 1)

YM3438_Update(s, length) == YM3438_Run(s, <<>>, length)

YM3438_Write(s, a, v) == [s EXCEPT !.ym3438 = ChipWrite(s.ym3438, a, v)]

\* the capability pointers, dispatched on the entry point bound
CallYM_Reset(s) ==
  LET t == Log(s, <<"YM_Reset">>)
  IN CASE s.YM_Reset = "YM3438_Reset" -> YM3438_Reset(t)
       [] s.YM_Reset = "YM2612ResetChip" -> [t EXCEPT !.ym2612 = Zero2]
       [] s.YM_Reset = "YM2413ResetChip" -> [t EXCEPT !.ym2413 = Zero2]

\* YM_Update(buffer, length): the chip state after, and the pairs written
CallYM_Update(s, length) ==
  LET t == Log(s, <<"YM_Update", length>>)
  IN CASE s.YM_Update = "YM3438_Update" -> YM3438_Update(t, length)
       [] s.YM_Update = "YM2612Update" -> [s |-> t, out |-> Repeat(t.ym2612, length)]
       [] s.YM_Update = "YM2413Update" -> [s |-> t, out |-> Repeat(t.ym2413, length)]

CallYM_Write(s, a, v) ==
  LET t == Log(s, <<"YM_Write", a, v>>)
  IN CASE s.YM_Write = "YM3438_Write" -> YM3438_Write(t, a, v)
       [] s.YM_Write = "YM2612Write" -> [t EXCEPT !.ym2612 = ChipWrite(t.ym2612, a, v)]
       [] s.YM_Write = "YM2413Write" -> [t EXCEPT !.ym2413 = ChipWrite(t.ym2413, a, v)]

\* a status read changes nothing in the chip
CallYM_Read(s, a) == Log(s, <<"YM_Read", a>>)

\* the PSG: its state is the number of frames it has ended since its reset,
\* modulo 2
psg_reset(s) == Log([s EXCEPT !.psg = 0], <<"psg_reset">>)
psg_end_frame(s, cycles) ==
  Log([s EXCEPT !.psg = (s.psg + 1) % 2], <<"psg_end_frame", cycles>>)

IsMD == system_hw = "MD"


(***************************************************************************)
(* sound_init: select the FM engine and its clock ratio.                   *)
(***************************************************************************)
\* a bug: the YM2413 branch leaves YM_Read as it was
ReadOfYM2413_keep(s) == s.YM_Read

\* the YM2413 has no status read: YM_Read = NULL
ReadOfYM2413(s) == "NULL"

sound_init(s0) ==
  LET s == Enter(s0)
      fm == IF IsMD
            THEN IF HAVE_YM3438_CORE /\ config.ym3438
                 THEN \* Nuked OPN2: chip is running at MCLK / 7 / 6
                      Log([s EXCEPT !.ym3438 = Zero2,
                                    !.ym3438_sample = Zero2,
                                    !.ym3438_accm = Repeat(Zero2, AccmSlots),
                                    !.YM_Reset = "YM3438_Reset",
                                    !.YM_Update = "YM3438_Update",
                                    !.YM_Write = "YM3438_Write",
                                    !.YM_Read = "YM3438_Read",
                                    !.fm_cycles_ratio = RatioYM3438],
                          <<"memset">>)
                 ELSE \* MAME YM2612: chip is running at MCLK / 7 / 144
                      Log(Log([s EXCEPT !.ym2612 = Zero2,
                                        !.YM_Reset = "YM2612ResetChip",
                                        !.YM_Update = "YM2612Update",
                                        !.YM_Write = "YM2612Write",
                                        !.YM_Read = "YM2612Read",
                                        !.fm_cycles_ratio = RatioYM2612],
                              <<"YM2612Init">>), <<"YM2612Config">>)
            ELSE \* YM2413: chip is running at MCLK / 15 / 72
                 Log([s EXCEPT !.ym2413 = Zero2,
                               !.YM_Reset = "YM2413ResetChip",
                               !.YM_Update = "YM2413Update",
                               !.YM_Write = "YM2413Write",
                               !.YM_Read = ReadOfYM2413(s),
                               !.fm_cycles_ratio = RatioYM2413],
                     <<"YM2413Init">>)
  IN Log(fm, <<"psg_init">>)

(***************************************************************************)
(* sound_reset                                                             *)
(***************************************************************************)
\* a bug: the carry of the last frame survives the reset
sound_reset_carry(s0) ==
  LET s == Log(psg_reset(CallYM_Reset(Enter(s0))), <<"psg_config">>)
  IN [s EXCEPT !.fm_ptr = 0,
               !.fm_cycles_start = 0,
               !.fm_cycles_count = 0]

sound_reset(s0) ==
  LET s == Log(psg_reset(CallYM_Reset(Enter(s0))), <<"psg_config">>)
  IN [s EXCEPT !.fm_last = Zero2,
               !.fm_ptr = 0,
               !.fm_cycles_start = 0,
               !.fm_cycles_count = 0]

(***************************************************************************)
(* fm_update: run the FM chip until the required master cycle.  fm_ptr is  *)
(* the offset, in ints, of the write position from the start of fm_buffer. *)
(***************************************************************************)
\* a bug: one sample per whole ratio plus one, which over-counts when the
\* span is an exact multiple of the ratio
SamplesToRun_floor(cycles, count, ratio) == (cycles - count) \div ratio + 1

\* a bug: the chip is run one sample beyond what is owed
SamplesToRun_eager(cycles, count, ratio) ==
  (cycles - count + ratio - 1) \div ratio + 1

\* number of samples to run
SamplesToRun(cycles, count, ratio) == (cycles - count + ratio - 1) \div ratio

\* a bug: the chip is also run, for zero samples, when the target is the
\* cycle already reached
BehindTarget_ge(cycles, count) == cycles >= count

\* the chip is behind the required cycle
BehindTarget(cycles, count) == cycles > count

\* a bug: the counter moves by the number of samples, not by their cycles
CountAfter_samples(count, samples, ratio) == count + samples

\* update FM cycle counter
CountAfter(count, samples, ratio) == count + samples * ratio

\* a bug: the pointer moves by two stereo pairs per sample
PointerAfter_quad(ptr, samples) == ptr + samples * 4

\* a bug: the pointer moves by one int per sample, not by a stereo pair
PointerAfter_mono(ptr, samples) == ptr + samples

\* update FM buffer pointer
PointerAfter(ptr, samples) == ptr + samples * 2

fm_update(s, cycles) ==
  IF BehindTarget(cycles, s.fm_cycles_count)
  THEN LET samples == SamplesToRun(cycles, s.fm_cycles_count, s.fm_cycles_ratio)
           run == CallYM_Update(s, samples)
       IN [run.s EXCEPT
             !.fm_buffer = BufWrite(s.fm_buffer, s.fm_ptr \div 2, run.out),
             !.fm_ptr = PointerAfter(s.fm_ptr, samples),
             !.fm_cycles_count =
               CountAfter(s.fm_cycles_count, samples, s.fm_cycles_ratio)]
  ELSE s

(***************************************************************************)
(* sound_update: end the frame at `cycles`.  The two flush loops are       *)
(* do ... while (time < cycles): the body runs before the first test.      *)
(***************************************************************************)
\* a bug: the loop goes on when the time counter has reached cycles
FlushGoesOn_le(time, cycles) == time <= cycles

\* the loop condition of both flush loops
FlushGoesOn(time, cycles) == time < cycles

\* a bug: the last output of the frame is not kept for the next frame
SaveLastOutput_skip(s, prev) == s

\* save last FM output for next frame
SaveLastOutput(s, prev) == [s EXCEPT !.fm_last = prev]

\* a bug: the counters restart at zero, dropping the overshoot of the frame
AdjustCounters_zero(s, time, cycles) ==
  [s EXCEPT !.fm_cycles_count = 0, !.fm_cycles_start = 0]

\* a bug: the counters keep the final timestamp, not its excess over cycles
AdjustCounters_absolute(s, time, cycles) ==
  [s EXCEPT !.fm_cycles_count = time, !.fm_cycles_start = time]

\* adjust FM cycle counters for next frame
AdjustCounters(s, time, cycles) ==
  [s EXCEPT !.fm_cycles_count = time - cycles, !.fm_cycles_start = time - cycles]

\* high-quality Band-Limited synthesis
RECURSIVE FlushHq(_, _, _, _, _, _)
FlushHq(s, i, time, prev, preamp, cycles) ==
  LET pair == BufAt(s.fm_buffer, i)
      l == CDiv(pair[1] * preamp, 100)
      r == CDiv(pair[2] * preamp, 100)
      t == Log(s, <<"blip_add_delta", time, l - prev[1], r - prev[2]>>)
      time2 == time + s.fm_cycles_ratio
  IN IF FlushGoesOn(time2, cycles)
     THEN FlushHq(t, i + 1, time2, <<l, r>>, preamp, cycles)
     ELSE [s |-> t, time |-> time2, prev |-> <<l, r>>]

\* a bug: the linear mode goes through the band-limited entry point, one
\* cycle late
FlushFast_skew(s, i, time, prev, preamp, cycles) ==
  FlushHq(s, i, time + 1, prev, preamp, cycles)

\* faster Linear Interpolation
RECURSIVE FlushFast(_, _, _, _, _, _)
FlushFast(s, i, time, prev, preamp, cycles) ==
  LET pair == BufAt(s.fm_buffer, i)
      l == CDiv(pair[1] * preamp, 100)
      r == CDiv(pair[2] * preamp, 100)
      t == Log(s, <<"blip_add_delta_fast", time, l - prev[1], r - prev[2]>>)
      time2 == time + s.fm_cycles_ratio
  IN IF FlushGoesOn(time2, cycles)
     THEN FlushFast(t, i + 1, time2, <<l, r>>, preamp, cycles)
     ELSE [s |-> t, time |-> time2, prev |-> <<l, r>>]

sound_update(s0, cycles) ==
  LET s == fm_update(psg_end_frame(Enter(s0), cycles), cycles)
      preamp == config.fm_preamp
      w == IF config.hq_fm
           THEN FlushHq(s, 0, s.fm_cycles_start, s.fm_last, preamp, cycles)
           ELSE FlushFast(s, 0, s.fm_cycles_start, s.fm_last, preamp, cycles)
      u == AdjustCounters(SaveLastOutput([w.s EXCEPT !.fm_ptr = 0], w.prev),
                          w.time, cycles)
  IN Log(Log(u, <<"blip_end_frame", cycles>>), <<"blip_samples_avail">>)

(***************************************************************************)
(* fm_reset, fm_write, fm_read: synchronize the chip, then access it.      *)
(***************************************************************************)
\* a bug: the chip reset also restarts the cycle counters, as sound_reset does
fm_reset_counters(s, cycles) ==
  [CallYM_Reset(fm_update(Enter(s), cycles))
     EXCEPT !.fm_cycles_start = 0, !.fm_cycles_count = 0]

fm_reset(s, cycles) == CallYM_Reset(fm_update(Enter(s), cycles))

\* a bug: the register is written before the chip is synchronized
fm_write_early(s, cycles, address, data) ==
  fm_update(CallYM_Write(Enter(s), address, data), cycles)

fm_write(s, cycles, address, data) ==
  CallYM_Write(fm_update(Enter(s), cycles), address, data)

fm_read(s, cycles, address) == CallYM_Read(fm_update(Enter(s), cycles), address)

(***************************************************************************)
(* sound_context_save / sound_context_load.  The state is the sequence of  *)
(* fields written, each with its name and value.                           *)
(***************************************************************************)
Field(name, value) == [f |-> name, v |-> value]

sound_context_save(s) ==
  LET fm == IF IsMD
            THEN IF HAVE_YM3438_CORE
                 THEN <<Field("config.ym3438", config.ym3438)>> \o
                      (IF config.ym3438
                       THEN <<Field("ym3438", s.ym3438),
                              Field("ym3438_accm", s.ym3438_accm),
                              Field("ym3438_sample", s.ym3438_sample),
                              Field("ym3438_cycles", s.ym3438_cycles)>>
                       ELSE <<Field("YM2612", s.ym2612)>>)
                 ELSE <<Field("YM2612", s.ym2612)>>
            ELSE <<Field("YM2413", s.ym2413)>>
  IN fm \o <<Field("psg", s.psg)>> \o <<Field("fm_cycles_start", s.fm_cycles_start)>>

\* a bug: fm_cycles_count keeps its value
RestoreCounters_startOnly(s, start) == [s EXCEPT !.fm_cycles_start = start]

\* load fm_cycles_start, and set fm_cycles_count to it
RestoreCounters(s, start) ==
  [s EXCEPT !.fm_cycles_start = start, !.fm_cycles_count = start]

\* the fields are consumed in order: `at` is the read position
sound_context_load(s0, state) ==
  LET s == Enter(s0)
      fm == IF IsMD
            THEN IF HAVE_YM3438_CORE
                 THEN IF state[1].v
                      THEN [s |-> [s EXCEPT !.ym3438 = state[2].v,
                                            !.ym3438_accm = state[3].v,
                                            !.ym3438_sample = state[4].v,
                                            !.ym3438_cycles = state[5].v],
                            at |-> 6]
                      ELSE [s |-> Log([s EXCEPT !.ym2612 = state[2].v],
                                      <<"YM2612Config">>),
                            at |-> 3]
                 ELSE [s |-> Log([s EXCEPT !.ym2612 = state[1].v], <<"YM2612Config">>),
                       at |-> 2]
            ELSE [s |-> [s EXCEPT !.ym2413 = state[1].v], at |-> 2]
  IN RestoreCounters([fm.s EXCEPT !.psg = state[fm.at].v], state[fm.at + 1].v)


(***************************************************************************)
(* The byte layout of the save-state: where each field is written and read *)
(* and the byte count returned.  bufferptr is the running offset.          *)
(***************************************************************************)
\* size in bytes of each field: the discriminator is one byte, the counters
\* are 32-bit, the accumulators 24 pairs of ints; the size of a chip's
\* context is the chip's own
FieldSize(f) ==
  CASE f = "config.ym3438" -> 1
    [] f = "ym3438" -> 16
    [] f = "ym3438_accm" -> AccmSlots * 2 * 4
    [] f = "ym3438_sample" -> 2 * 4
    [] f = "ym3438_cycles" -> 4
    [] f = "YM2612" -> 32
    [] f = "YM2413" -> 20
    [] f = "psg" -> 12
    [] f = "fm_cycles_start" -> 4

NoLayout == [fields |-> <<>>, bufferptr |-> 0]

\* save_param / load_param: the field is at bufferptr, which then moves on
Param(l, f) ==
  [fields |-> Append(l.fields, [f |-> f, at |-> l.bufferptr]),
   bufferptr |-> l.bufferptr + FieldSize(f)]

\* a chip context saved or loaded at offset `at`, its size added to `base`
Context(l, f, at, base) ==
  [fields |-> Append(l.fields, [f |-> f, at |-> at]),
   bufferptr |-> base + FieldSize(f)]

\* sound_context_save: the fields written, and the value returned
SaveLayout ==
  LET fm == IF IsMD
            THEN IF HAVE_YM3438_CORE
                 THEN LET d == Param(NoLayout, "config.ym3438")
                      IN IF config.ym3438
                         THEN Param(Param(Param(Param(d, "ym3438"), "ym3438_accm"),
                                          "ym3438_sample"), "ym3438_cycles")
                         ELSE Context(d, "YM2612", FieldSize("config.ym3438"),
                                      d.bufferptr)
                 ELSE Context(NoLayout, "YM2612", 0, 0)
            ELSE Param(NoLayout, "YM2413")
      psgl == Context(fm, "psg", fm.bufferptr, fm.bufferptr)
  IN Param(psgl, "fm_cycles_start")

\* a bug: the PSG state is read from the start of the state
LoadPsg_fromStart(l) == Context(l, "psg", 0, l.bufferptr)

\* bufferptr += psg_context_load(&state[bufferptr])
LoadPsg(l) == Context(l, "psg", l.bufferptr, l.bufferptr)

\* sound_context_load: the fields read, and the value returned; config_ym3438
\* is the discriminator read from the state, a uint8
LoadLayout(state) ==
  LET fm == IF IsMD
            THEN IF HAVE_YM3438_CORE
                 THEN LET d == Param(NoLayout, "config.ym3438")
                          config_ym3438 == state[1].v
                      IN IF config_ym3438
                         THEN Param(Param(Param(Param(d, "ym3438"), "ym3438_accm"),
                                          "ym3438_sample"), "ym3438_cycles")
                         ELSE Context(d, "YM2612", 1, d.bufferptr)
                 ELSE Context(NoLayout, "YM2612", 0, 0)
            ELSE Param(NoLayout, "YM2413")
  IN Param(LoadPsg(fm), "fm_cycles_start")


(***************************************************************************)
(* Inputs.                                                                 *)
(***************************************************************************)
\* the unit of the cycle targets: one sample of the chip; for the YM3438,
\* which emits one pair per internal clock, half an accumulation period
Unit ==
  IF fm_cycles_ratio = RatioYM3438
  THEN (AccmSlots \div 2) * RatioYM3438
  ELSE fm_cycles_ratio

\* cycle targets of register accesses: on and just after sample boundaries
Targets == {k * Unit + d : k \in 0..MaxSamples, d \in {0, 1}}

\* frame lengths
FrameLengths == Targets \ {0}

\* frame lengths of a constant-length run: below, at and above one sample
SteadyLengths ==
  {1, fm_cycles_ratio \div 2, fm_cycles_ratio - 1, fm_cycles_ratio,
   fm_cycles_ratio + 1, 2 * fm_cycles_ratio} \cup
  (IF fm_cycles_ratio = RatioYM2612 THEN {ScenarioCycles} ELSE {})

(***************************************************************************)
(* What the properties read from a call log.                               *)
(***************************************************************************)
IsDelta(c) == c[1] \in {"blip_add_delta", "blip_add_delta_fast"}

\* the (timestamp, left delta, right delta) triples submitted, in order
Deltas(log) ==
  LET d == SelectSeq(log, IsDelta)
  IN [j \in 1..Len(d) |-> <<d[j][2], d[j][3], d[j][4]>>]

RECURSIVE SumDeltas(_, _, _)
SumDeltas(d, ch, j) == IF j = 0 THEN 0 ELSE d[j][ch + 1] + SumDeltas(d, ch, j - 1)

IsGenerate(c) == c[1] = "YM_Update"

RECURSIVE SumRequested(_, _)
SumRequested(g, j) == IF j = 0 THEN 0 ELSE g[j][2] + SumRequested(g, j - 1)

\* the number of samples requested from YM_Update
Requested(log) ==
  LET g == SelectSeq(log, IsGenerate) IN SumRequested(g, Len(g))

NoTwin == [on |-> FALSE]

\* since the reset: samples requested from YM_Update, cycles of the frames
\* ended, deltas submitted, and whether every frame was longer than the
\* residual it began with and had no register access timed after its end
NoTotals == [samples |-> 0, cycles |-> 0, deltas |-> 0, regular |-> TRUE]
NoMix == [on |-> FALSE]

(***************************************************************************)
(* Initial state: the statics as the loader leaves them.                   *)
(***************************************************************************)
Init ==
  /\ \E c \in Configs :
       /\ system_hw = c.hw
       /\ HAVE_YM3438_CORE = c.have
       /\ config = c.config
  /\ fm_buffer = <<>>
  /\ fm_last = Zero2
  /\ fm_ptr = NullPtr
  /\ fm_cycles_ratio = 0
  /\ fm_cycles_start = 0
  /\ fm_cycles_count = 0
  /\ YM_Reset = "NULL"
  /\ YM_Update = "NULL"
  /\ YM_Write = "NULL"
  /\ YM_Read = "NULL"
  /\ ym3438 = Zero2
  /\ ym3438_accm = Repeat(Zero2, AccmSlots)
  /\ ym3438_sample = Zero2
  /\ ym3438_cycles = 0
  /\ ym2612 = Zero2
  /\ ym2413 = Zero2
  /\ psg = 0
  /\ calls = <<>>
  /\ op = <<"load">>
  /\ frames = 0
  /\ ops = 0
  /\ resets = 0
  /\ maxTarget = 0
  /\ requested = 0
  /\ firstFrame = FALSE
  /\ emitted = Zero2
  /\ mix = NoMix
  /\ residuals = <<>>
  /\ totals = NoTotals
  /\ saved = <<>>
  /\ orig = NoTwin
  /\ twin = NoTwin

\* sound_reset has run: fm_ptr points into fm_buffer
Ready == fm_ptr # NullPtr

\* the instance that wrote the save-state takes the same step
TwinStep(next) == twin' = IF twin.on THEN [on |-> TRUE, s |-> next] ELSE twin

(***************************************************************************)
(* Actions: one per handler.                                               *)
(***************************************************************************)
SoundInit ==
  /\ YM_Reset = "NULL"
  /\ Commit(sound_init(Cur))
  /\ op' = <<"sound_init">>
  /\ UNCHANGED <<envVars, frames, ops, resets, maxTarget, requested, firstFrame,
                 emitted, mix, residuals, totals, saveVars>>

SoundReset ==
  /\ YM_Reset # "NULL"
  /\ resets < MaxResets
  /\ Commit(sound_reset(Cur))
  /\ op' = <<"sound_reset">>
  /\ resets' = resets + 1
  /\ maxTarget' = 0
  /\ requested' = 0
  /\ firstFrame' = TRUE
  /\ emitted' = Zero2
  /\ mix' = NoMix
  /\ residuals' = <<>>
  /\ totals' = NoTotals
  /\ twin' = NoTwin
  /\ UNCHANGED <<envVars, frames, ops, saved, orig>>

\* a register access at cycle target c: timestamps do not decrease in a frame
Access(c, next, twinNext, name) ==
  /\ Ready
  /\ ops < MaxOps
  /\ c >= maxTarget
  /\ Commit(next)
  /\ TwinStep(twinNext)
  /\ op' = name
  /\ ops' = ops + 1
  /\ maxTarget' = c
  /\ requested' = requested + Requested(next.calls)
  /\ UNCHANGED <<envVars, frames, resets, firstFrame, emitted, mix, residuals,
                 totals, saved, orig>>

FmWrite ==
  \E c \in Targets, w \in Writes :
    Access(c, fm_write(Cur, c, w[1], w[2]),
           IF twin.on THEN fm_write(twin.s, c, w[1], w[2]) ELSE Cur,
           <<"fm_write", c, w[1], w[2]>>)

FmRead ==
  \E c \in Targets, a \in ReadAddrs :
    /\ YM_Read # "NULL"
    /\ Access(c, fm_read(Cur, c, a),
              IF twin.on THEN fm_read(twin.s, c, a) ELSE Cur,
              <<"fm_read", c, a>>)

FmReset ==
  \E c \in Targets :
    Access(c, fm_reset(Cur, c),
           IF twin.on THEN fm_reset(twin.s, c) ELSE Cur,
           <<"fm_reset", c>>)

\* sound_update(cycles), with what the frame looked like kept in mix
Frame(cycles, steady) ==
  LET next == sound_update(Cur, cycles)
      d == Deltas(next.calls)
  IN /\ Ready
     /\ Commit(next)
     /\ TwinStep(IF twin.on THEN sound_update(twin.s, cycles) ELSE Cur)
     /\ op' = <<"sound_update", cycles>>
     /\ frames' = frames + 1
     /\ mix' = [on |-> TRUE,
                cycles |-> cycles,
                start |-> fm_cycles_start,
                count |-> fm_cycles_count,
                held |-> fm_ptr \div 2,
                pairs |-> (fm_ptr \div 2) + Requested(next.calls),
                requested |-> requested + Requested(next.calls),
                maxTarget |-> maxTarget,
                first |-> firstFrame,
                level |-> emitted,
                last |-> fm_last]
     /\ emitted' = <<emitted[1] + SumDeltas(d, 1, Len(d)),
                     emitted[2] + SumDeltas(d, 2, Len(d))>>
     /\ residuals' = IF steady THEN Append(residuals, next.fm_cycles_start)
                     ELSE residuals
     /\ totals' = IF steady
                  THEN [samples |-> totals.samples + requested + Requested(next.calls),
                        cycles |-> totals.cycles + cycles,
                        deltas |-> totals.deltas + Len(d),
                        regular |-> /\ totals.regular
                                    /\ cycles > fm_cycles_start
                                    /\ maxTarget <= cycles]
                  ELSE totals
     /\ maxTarget' = 0
     /\ requested' = 0
     /\ firstFrame' = FALSE
     /\ UNCHANGED <<envVars, ops, resets, saved, orig>>

SoundUpdate ==
  \E cycles \in FrameLengths :
    /\ frames < MaxFrames
    /\ Frame(cycles, FALSE)

\* save and load are called between frames, with the sample buffer empty
ContextSave ==
  /\ Ready
  /\ fm_ptr = 0
  /\ op[1] = "sound_update"
  /\ saved = <<>>
  /\ saved' = sound_context_save(Cur)
  /\ orig' = [on |-> TRUE, s |-> Cur]
  /\ op' = <<"sound_context_save">>
  /\ UNCHANGED <<envVars, sndVars, frames, ops, resets, maxTarget, requested,
                 firstFrame, emitted, mix, residuals, totals, twin>>

\* a load right after sound_reset restores into a fresh instance: from then
\* on the instance that saved is followed alongside
ContextLoad ==
  /\ Ready
  /\ fm_ptr = 0
  /\ op[1] \in {"sound_reset", "sound_update"}
  /\ saved # <<>>
  /\ Commit(sound_context_load(Cur, saved))
  /\ twin' = IF op[1] = "sound_reset" THEN orig ELSE NoTwin
  /\ op' = <<"sound_context_load">>
  /\ firstFrame' = FALSE
  /\ UNCHANGED <<envVars, frames, ops, resets, maxTarget, requested, emitted,
                 mix, residuals, totals, saved, orig>>

Next ==
  \/ SoundInit
  \/ SoundReset
  \/ FmWrite
  \/ FmRead
  \/ FmReset
  \/ SoundUpdate
  \/ ContextSave
  \/ ContextLoad

Spec == Init /\ [][Next]_vars


(***************************************************************************)
(* Runs of frames of one constant length: after the reset the chip outputs *)
(* may be set at cycle 0, then sound_update is called with the same length *)
(* again and again.  residuals holds the frame-start left by each frame.   *)
(***************************************************************************)
\* the run starts with the one reset of the session
SteadyReset ==
  /\ resets = 0
  /\ SoundReset

SteadyWrite ==
  \E w \in Writes :
    /\ firstFrame
    /\ Access(0, fm_write(Cur, 0, w[1], w[2]), Cur, <<"fm_write", 0, w[1], w[2]>>)

SteadyFrame ==
  \E cycles \in SteadyLengths :
    /\ frames < MaxSteady
    /\ mix.on => cycles = mix.cycles
    /\ Frame(cycles, TRUE)

NextSteady ==
  \/ SoundInit
  \/ SteadyReset
  \/ SteadyWrite
  \/ SteadyFrame

SpecSteady == Init /\ [][NextSteady]_vars


(***************************************************************************)
(* Runs of frames of varying lengths from the one reset of the session,    *)
(* with register accesses between them; totals keeps the sums since the    *)
(* reset.                                                                  *)
(***************************************************************************)
\* frame lengths: below one sample, one sample, just above it, and above
\* two samples
DriftLengths ==
  {1, fm_cycles_ratio, fm_cycles_ratio + 1, 2 * fm_cycles_ratio + 5}

DriftFrame ==
  \E cycles \in DriftLengths :
    /\ frames < MaxDrift
    /\ Frame(cycles, TRUE)

NextDrift ==
  \/ SoundInit
  \/ SteadyReset
  \/ FmWrite
  \/ FmRead
  \/ FmReset
  \/ DriftFrame

SpecDrift == Init /\ [][NextDrift]_vars


(***************************************************************************)
(* Runs that fill the sample buffer: register accesses timed up to, and    *)
(* just beyond, the cycle at which fm_buffer is full.  fm_update makes no  *)
(* bounds check: a write past the end of the array is undefined behaviour, *)
(* which may go unnoticed or overwrite the statics that follow the array   *)
(* (fm_last is declared next); nothing is said of what follows it.         *)
(***************************************************************************)
\* the size of fm_buffer in stereo pairs
Capacity ==
  IF HAVE_YM3438_CORE THEN FmBufferPairs * FmBufferScale ELSE FmBufferPairs

\* the write position has passed the end of fm_buffer
Overrun == fm_ptr \div 2 > Capacity

\* what a handler that ends in the statics n can leave
Outcomes(n) ==
  IF n.fm_ptr \div 2 > Capacity
  THEN {n, [n EXCEPT !.fm_last = BufAt(n.fm_buffer, Capacity)]}
  ELSE {n}

\* cycle targets: the first cycle, and around the cycle that fills the buffer
FillTargets == {1, Capacity * fm_cycles_ratio, Capacity * fm_cycles_ratio + 1}

\* the register write of these runs: the left output is set to 100
FillData == <<0, 100>>

\* frame lengths: short frames, which leave a residual
FillLengths == {1, fm_cycles_ratio + 2}

FillWrite ==
  \E c \in FillTargets :
    /\ Ready
    /\ ~Overrun
    /\ ops < MaxOps
    /\ c >= maxTarget
    /\ \E n \in Outcomes(fm_write(Cur, c, FillData[1], FillData[2])) :
         Access(c, n, Cur, <<"fm_write", c, FillData[1], FillData[2]>>)

FillFrame ==
  \E cycles \in FillLengths :
    /\ Ready
    /\ ~Overrun
    /\ frames < MaxFill
    /\ Frame(cycles, FALSE)

NextFill ==
  \/ SoundInit
  \/ SteadyReset
  \/ FillWrite
  \/ FillFrame

SpecCapacity == Init /\ [][NextFill]_vars


(***************************************************************************)
(* Initialisation runs: the emulator is reconfigured (another console is   *)
(* loaded, the preference is changed) with no samples pending, and         *)
(* sound_init selects the engine again.  The build does not change.        *)
(***************************************************************************)
Reconfigure ==
  \E hw \in HwClasses, pref \in BOOLEAN, hq \in BOOLEAN, preamp \in Preamps :
    /\ fm_ptr \in {NullPtr, 0}
    /\ system_hw' = hw
    /\ config' = [ym3438 |-> pref, hq_fm |-> hq, fm_preamp |-> preamp]
    /\ <<system_hw', config'>> # <<system_hw, config>>
    /\ op' = <<"reconfigure">>
    /\ UNCHANGED <<HAVE_YM3438_CORE, sndVars, frames, ops, resets, maxTarget,
                   requested, firstFrame, emitted, mix, residuals, totals,
                   saveVars>>

Reinit ==
  /\ fm_ptr \in {NullPtr, 0}
  /\ Commit(sound_init(Cur))
  /\ op' = <<"sound_init">>
  /\ UNCHANGED <<envVars, frames, ops, resets, maxTarget, requested, firstFrame,
                 emitted, mix, residuals, totals, saveVars>>

NextInit ==
  \/ Reconfigure
  \/ Reinit

SpecInit == Init /\ [][NextInit]_vars


(***************************************************************************)
(* Properties.                                                             *)
(***************************************************************************)
\* the last handler was sound_update: mix describes the frame it ended
AfterFrame == op[1] = "sound_update"

\* the last handler was a register access at cycle target op[2]
AfterAccess == op[1] \in {"fm_write", "fm_read", "fm_reset"}

\* the deltas submitted by the last handler
D == Deltas(calls)

\* FM output pre-amplification of one buffer pair
Amp(pair) ==
  <<CDiv(pair[1] * config.fm_preamp, 100), CDiv(pair[2] * config.fm_preamp, 100)>>

\* the positions of the calls of `log` satisfying Test
Positions(log, Test(_)) == {i \in 1..Len(log) : Test(log[i])}

IsAccessCall(c) == c[1] \in {"YM_Write", "YM_Read", "YM_Reset"}

\* C1: after save() and load() into a freshly reset instance, every later
\* sound_update submits the same (timestamp, left delta, right delta)
\* sequence and leaves the same frame-start as the instance that saved does
\* on the same later inputs.  Stated for the frames that generate samples.
C1_RoundTrip ==
  (twin.on /\ AfterFrame /\ mix.pairs > 0) =>
    /\ D = Deltas(twin.s.calls)
    /\ fm_cycles_start = twin.s.fm_cycles_start

\* C2: from reset, over the non-decreasing cycle targets c1 <= ... <= cn of
\* one frame, the samples requested from the chip total ceil(cn / ratio).
C2_SamplesOwedOnce ==
  /\ (Ready /\ firstFrame) => requested = CeilDiv(maxTarget, fm_cycles_ratio)
  /\ (AfterFrame /\ mix.first /\ mix.cycles >= mix.maxTarget) =>
       mix.requested = CeilDiv(mix.cycles, fm_cycles_ratio)

\* two targets of the first frame after reset both made the chip run
C2_Witness ==
  /\ AfterFrame
  /\ mix.first
  /\ mix.cycles >= mix.maxTarget
  /\ mix.held > 0
  /\ mix.pairs > mix.held

\* C3: fm_cycles_count - fm_cycles_start is never negative and is always a
\* multiple of the clock ratio.
C3_CountMinusStart ==
  fm_cycles_ratio > 0 =>
    /\ fm_cycles_count - fm_cycles_start >= 0
    /\ (fm_cycles_count - fm_cycles_start) % fm_cycles_ratio = 0

\* samples are pending in a frame that started with a residual
C3_Witness ==
  /\ fm_cycles_start > 0
  /\ fm_cycles_count > fm_cycles_start
  /\ saved # <<>>

\* C4: the buffer never holds more pairs than ceil((T - frame-start) / ratio)
\* for the largest target T since it was emptied (none if T <= frame-start);
\* right after an advance to t that ran the chip, t <= count < t + ratio.
C4_NeverOverProduces ==
  /\ Ready =>
       fm_ptr \div 2 <= (IF maxTarget > fm_cycles_start
                         THEN CeilDiv(maxTarget - fm_cycles_start, fm_cycles_ratio)
                         ELSE 0)
  /\ (AfterAccess /\ Requested(calls) > 0) =>
       /\ op[2] <= fm_cycles_count
       /\ fm_cycles_count < op[2] + fm_cycles_ratio
  /\ (AfterFrame /\ mix.pairs > mix.held) =>
       /\ mix.cycles <= mix.start + mix.pairs * fm_cycles_ratio
       /\ mix.start + mix.pairs * fm_cycles_ratio < mix.cycles + fm_cycles_ratio

\* a target strictly inside a sample's span ran the chip
C4_Witness ==
  /\ AfterAccess
  /\ Requested(calls) > 0
  /\ fm_cycles_count > op[2]
  /\ fm_cycles_start > 0

\* C5: a register access at cycle c reaches the chip only after the generate
\* call covering every cycle up to c: at the access, count >= c.
C5_SyncBeforeAccess ==
  AfterAccess =>
    /\ fm_cycles_count >= op[2]
    /\ Positions(calls, IsAccessCall) # {}
    /\ \A i \in Positions(calls, IsGenerate), j \in Positions(calls, IsAccessCall) :
         i < j

\* a write that first made the chip run
C5_Witness ==
  /\ op[1] = "fm_write"
  /\ Len(calls) = 2
  /\ calls[1][1] = "YM_Update"
  /\ calls[2][1] = "YM_Write"

\* C6: the first delta of a frame is the amplified first sample of the frame
\* minus the amplified last sample emitted in the frame before, which is
\* zero only when no frame came before in the session.
C6_CarryContinuity ==
  (AfterFrame /\ mix.pairs > 0) =>
    /\ D[1][2] = Amp(fm_buffer[1])[1] - mix.level[1]
    /\ D[1][3] = Amp(fm_buffer[1])[2] - mix.level[2]
    /\ mix.first => mix.level = Zero2

\* a later frame whose first delta was taken against a nonzero carry
C6_Witness ==
  /\ AfterFrame
  /\ mix.pairs > 0
  /\ ~mix.first
  /\ mix.level[1] # 0
  /\ D[1][2] # Amp(fm_buffer[1])[1]


\* timestamps of the deltas start at the frame-start and step by the ratio
TimestampsStep ==
  \A i \in 1..Len(D) : D[i][1] = mix.start + (i - 1) * fm_cycles_ratio

\* C7 as claimed: in every frame, whatever register accesses preceded it, one
\* delta is submitted per pair in the buffer, the i-th at frame-start +
\* i * ratio, every timestamp below frameCycles.
C7_OneDeltaPerPair ==
  AfterFrame =>
    /\ Len(D) = mix.pairs
    /\ TimestampsStep
    /\ \A i \in 1..Len(D) : D[i][1] < mix.cycles

\* C7 as amended: the timestamps always step from the frame-start by the
\* ratio; when no register access of the frame was timed after frameCycles
\* and the buffer holds a pair, there is one delta per pair, all of them
\* timed below frameCycles; with an empty buffer the one delta submitted is
\* timed at the frame-start, at or after frameCycles.
C7_DeltasOfFrame ==
  AfterFrame =>
    /\ TimestampsStep
    /\ (mix.maxTarget <= mix.cycles /\ mix.pairs > 0) =>
         /\ Len(D) = mix.pairs
         /\ \A i \in 1..Len(D) : D[i][1] < mix.cycles
    /\ mix.pairs = 0 =>
         /\ Len(D) = 1
         /\ D[1][1] >= mix.cycles

\* a frame of two pairs, the first generated by a register access
C7_Witness ==
  /\ AfterFrame
  /\ mix.held > 0
  /\ mix.pairs > mix.held
  /\ mix.maxTarget <= mix.cycles
  /\ Len(D) = mix.pairs

\* C8: when sound_update finds the buffer empty after its advance, it
\* submits no delta and leaves the carry as it was, and still resets the
\* write position, updates the counters and ends the resampler's frame.
C8_EmptyBufferNoDelta ==
  (AfterFrame /\ mix.pairs = 0) =>
    /\ Len(D) = 0
    /\ fm_last = mix.last
    /\ fm_ptr = 0
    /\ fm_cycles_count = fm_cycles_start
    /\ Positions(calls, LAMBDA c : c[1] = "blip_end_frame") # {}

\* C9: from reset, with the chip emitting one constant pair and 100%
\* amplification, sound_update(F) generates ceil(F / ratio) samples, submits
\* the pair as the delta at timestamp 0 and zero deltas after it, and leaves
\* both counters at ceil(F / ratio) * ratio - F (ratio 1008, F 50000, value
\* 100: 50 samples, first delta 100, frame-start 400); every frame leaves
\* both counters at the final timestamp minus frameCycles.
C9_FrameResidual ==
  AfterFrame =>
    /\ fm_cycles_start = D[Len(D)][1] + fm_cycles_ratio - mix.cycles
    /\ fm_cycles_count = fm_cycles_start
    /\ ( /\ mix.first
         /\ mix.held = 0
         /\ config.fm_preamp = 100
         /\ \A i \in 1..mix.pairs : fm_buffer[i] = fm_buffer[1] ) =>
         LET n == CeilDiv(mix.cycles, fm_cycles_ratio)
         IN /\ mix.pairs = n
            /\ Len(D) = n
            /\ D[1] = <<0, fm_buffer[1][1], fm_buffer[1][2]>>
            /\ \A i \in 2..n : D[i] = <<(i - 1) * fm_cycles_ratio, 0, 0>>
            /\ fm_cycles_start = n * fm_cycles_ratio - mix.cycles
            /\ ( /\ fm_cycles_ratio = 1008
                 /\ mix.cycles = 50000
                 /\ fm_buffer[1][1] = 100 ) =>
                 /\ mix.pairs = 50
                 /\ D[1][2] = 100
                 /\ fm_cycles_start = 400

\* the documented scenario
C9_Witness ==
  /\ AfterFrame
  /\ mix.first
  /\ mix.held = 0
  /\ config.fm_preamp = 100
  /\ fm_cycles_ratio = 1008
  /\ mix.cycles = 50000
  /\ \A i \in 1..mix.pairs : fm_buffer[i] = <<100, 0>>
  /\ fm_cycles_start = 400

\* C10: with one constant frame length F the frame-start residuals repeat
\* with a period dividing lcm(F, ratio): once more than lcm(F, ratio) frames
\* have run, the residual equals the residual lcm(F, ratio) frames earlier.
C10_ResidualPeriodic ==
  (AfterFrame /\ Len(residuals) > Lcm(mix.cycles, fm_cycles_ratio)) =>
    residuals[Len(residuals)] =
      residuals[Len(residuals) - Lcm(mix.cycles, fm_cycles_ratio)]

\* the step is made by a handler other than sound_init and sound_reset: it
\* stays within the session
InSession == op'[1] \notin {"sound_init", "sound_reset"}

\* C11 as claimed: within a session, for every step of a register access,
\* sound_update, save or load, the new fm_cycles_count is >= the old one and
\* the new fm_cycles_start is >= the old one.
C11_CountersNeverDecrease ==
  [][InSession =>
       /\ fm_cycles_count' >= fm_cycles_count
       /\ fm_cycles_start' >= fm_cycles_start]_vars

\* C11 as amended: within a frame the counters never decrease: a register
\* access never lowers fm_cycles_count and leaves fm_cycles_start as it is,
\* and a save changes neither; sound_update restarts both at the residual
\* of the frame, final timestamp - frameCycles, and a load sets both to the
\* saved fm_cycles_start.
C11_CountersWithinFrame ==
  [][/\ op'[1] \in {"fm_write", "fm_read", "fm_reset"} =>
          /\ fm_cycles_count' >= fm_cycles_count
          /\ fm_cycles_start' = fm_cycles_start
     /\ op'[1] = "sound_context_save" =>
          /\ fm_cycles_count' = fm_cycles_count
          /\ fm_cycles_start' = fm_cycles_start
     /\ op'[1] = "sound_update" =>
          /\ fm_cycles_start' = D'[Len(D')][1] + fm_cycles_ratio - op'[2]
          /\ fm_cycles_count' = fm_cycles_start'
     /\ op'[1] = "sound_context_load" =>
          /\ fm_cycles_start' = saved[Len(saved)].v
          /\ fm_cycles_count' = fm_cycles_start']_vars

\* a chip reset that first ran the chip, in a frame that began with a
\* residual
C11_Witness ==
  /\ op[1] = "fm_reset"
  /\ Requested(calls) > 0
  /\ fm_cycles_start > 0
  /\ fm_cycles_count > fm_cycles_start

\* the entry points and the ratio bound
Binding == <<YM_Reset, YM_Update, YM_Write, YM_Read, fm_cycles_ratio>>

\* the three engine variants: their entry points and clock ratio
HighPrecision == <<"YM3438_Reset", "YM3438_Update", "YM3438_Write", "YM3438_Read", 42>>
Standard == <<"YM2612ResetChip", "YM2612Update", "YM2612Write", "YM2612Read", 1008>>
Simplified == <<"YM2413ResetChip", "YM2413Update", "YM2413Write", "NULL", 1080>>
Unbound == <<"NULL", "NULL", "NULL", "NULL", 0>>

\* C12 as claimed: after sound_init, Mega Drive hardware with the preference
\* set has the high-precision engine and ratio 42, with the preference clear
\* the standard engine and ratio 1008, every other hardware the simplified
\* engine and ratio 1080; entry points of two engines are never bound together.
C12_SelectionByPreference ==
  /\ Binding \in {Unbound, HighPrecision, Standard, Simplified}
  /\ op[1] = "sound_init" =>
       Binding = IF IsMD
                 THEN IF config.ym3438 THEN HighPrecision ELSE Standard
                 ELSE Simplified

\* C12 as amended: the high-precision engine is selected only by a build
\* that has it compiled in; on Mega Drive hardware a build without it binds
\* the standard engine and ratio 1008 whatever the preference.
C12_SelectionByBuild ==
  /\ Binding \in {Unbound, HighPrecision, Standard, Simplified}
  /\ op[1] = "sound_init" =>
       Binding = IF IsMD
                 THEN IF HAVE_YM3438_CORE /\ config.ym3438
                      THEN HighPrecision ELSE Standard
                 ELSE Simplified

\* sound_init selected the simplified engine in a build that has the
\* high-precision engine, with the preference set
C12_Witness ==
  /\ op[1] = "sound_init"
  /\ system_hw = "SMS"
  /\ HAVE_YM3438_CORE
  /\ config.ym3438
  /\ Binding = Simplified

\* C13: after sound_reset, from any prior state, the write position is at
\* the start of the buffer, both carry values are zero and fm_cycles_count =
\* fm_cycles_start = 0; the clock ratio and the entry points bound are
\* unchanged by the reset.
C13_ResetPostcondition ==
  [][op'[1] = "sound_reset" =>
       /\ fm_ptr' = 0
       /\ fm_last' = Zero2
       /\ fm_cycles_count' = 0
       /\ fm_cycles_start' = 0
       /\ Binding' = Binding]_vars

\* a second reset of the run, taken after a frame that emitted a nonzero
\* sample
C13_Witness ==
  /\ op[1] = "sound_reset"
  /\ resets = 2
  /\ frames > 0
  /\ Len(fm_buffer) > 0
  /\ fm_buffer[1] # Zero2
  /\ fm_last = Zero2
  /\ fm_ptr = 0

\* the flush of sound_update(cycles) from the statics s0 in the mixing mode
\* hq: the state before the flush is the one fm_update leaves
FlushIn(s0, cycles, hq) ==
  LET s == fm_update(psg_end_frame(Enter(s0), cycles), cycles)
  IN IF hq
     THEN FlushHq(s, 0, s.fm_cycles_start, s.fm_last, config.fm_preamp, cycles)
     ELSE FlushFast(s, 0, s.fm_cycles_start, s.fm_last, config.fm_preamp, cycles)

\* the entry points the deltas of a call log went to
DeltaEntries(log) == {log[i][1] : i \in Positions(log, IsDelta)}

\* C14: from the same state with the same frameCycles, the flush with
\* config.hq_fm set and with it clear submits the same (timestamp, left
\* delta, right delta) sequence and ends with the same carry and final
\* timestamp, hence the same fm_last, fm_ptr and counters; the flag selects
\* only the entry point, and sound_update leaves what the flush computed.
C14_ModeIndependence ==
  [][op'[1] = "sound_update" =>
       LET hq == FlushIn(Cur, op'[2], TRUE)
           fast == FlushIn(Cur, op'[2], FALSE)
       IN /\ Deltas(hq.s.calls) = Deltas(fast.s.calls)
          /\ hq.prev = fast.prev
          /\ hq.time = fast.time
          /\ [hq.s EXCEPT !.calls = <<>>] = [fast.s EXCEPT !.calls = <<>>]
          /\ DeltaEntries(hq.s.calls) = {"blip_add_delta"}
          /\ DeltaEntries(fast.s.calls) = {"blip_add_delta_fast"}
          /\ D' = Deltas(fast.s.calls)
          /\ fm_last' = fast.prev
          /\ fm_ptr' = 0
          /\ fm_cycles_start' = fast.time - op'[2]
          /\ fm_cycles_count' = fast.time - op'[2]
          /\ DeltaEntries(calls') =
               (IF config.hq_fm THEN {"blip_add_delta"} ELSE {"blip_add_delta_fast"})]_vars

\* a frame of two pairs flushed in the linear mode, with a nonzero delta
\* against a nonzero carry
C14_Witness ==
  /\ AfterFrame
  /\ ~config.hq_fm
  /\ mix.pairs = 2
  /\ mix.last # Zero2
  /\ D[1][2] # 0
  /\ DeltaEntries(calls) = {"blip_add_delta_fast"}

\* the names of the fields of a save-state, in order
FieldNames(state) == [i \in 1..Len(state) |-> state[i].f]

\* C15: for every engine, load reads the fields in the order and at the
\* offsets save wrote them (discriminator when compiled in, engine state,
\* PSG state, fm_cycles_start), returns the byte count save returned,
\* restores the engine and PSG state and fm_cycles_start to the saved
\* values and leaves fm_cycles_count = fm_cycles_start.
C15_LayoutAgreement ==
  op[1] = "sound_context_load" =>
    /\ LoadLayout(saved).fields = SaveLayout.fields
    /\ LoadLayout(saved).bufferptr = SaveLayout.bufferptr
    /\ FieldNames(SaveLayout.fields) = FieldNames(saved)
    /\ \A i \in 2..Len(SaveLayout.fields) :
         SaveLayout.fields[i].at =
           SaveLayout.fields[i - 1].at + FieldSize(SaveLayout.fields[i - 1].f)
    /\ FieldNames(saved)[Len(saved) - 1] = "psg"
    /\ FieldNames(saved)[Len(saved)] = "fm_cycles_start"
    /\ (IsMD /\ HAVE_YM3438_CORE) <=> saved[1].f = "config.ym3438"
    /\ ym3438 = orig.s.ym3438
    /\ ym3438_accm = orig.s.ym3438_accm
    /\ ym3438_sample = orig.s.ym3438_sample
    /\ ym3438_cycles = orig.s.ym3438_cycles
    /\ ym2612 = orig.s.ym2612
    /\ ym2413 = orig.s.ym2413
    /\ psg = orig.s.psg
    /\ fm_cycles_start = orig.s.fm_cycles_start
    /\ fm_cycles_count = fm_cycles_start

\* a load, into a reset instance, of a state saved with a discriminator, a
\* chip holding a nonzero level and a residual
C15_Witness ==
  /\ op[1] = "sound_context_load"
  /\ twin.on
  /\ saved[1].f = "config.ym3438"
  /\ fm_cycles_start > 0
  /\ psg = 1
  /\ ym2612 # Zero2

\* C16: a register access, or the advance of sound_update, at a cycle target
\* t <= fm_cycles_count does not call YM_Update; the register access leaves
\* fm_ptr, fm_buffer, both counters and fm_last unchanged.
C16_CoveredTimeNoOp ==
  [][/\ (op'[1] \in {"fm_write", "fm_read", "fm_reset"} /\ op'[2] <= fm_cycles_count) =>
          /\ Positions(calls', IsGenerate) = {}
          /\ UNCHANGED <<fm_ptr, fm_buffer, fm_cycles_count, fm_cycles_start, fm_last>>
          /\ fm_update(Cur, op'[2]) = Cur
     /\ (op'[1] = "sound_update" /\ op'[2] <= fm_cycles_count) =>
          /\ Positions(calls', IsGenerate) = {}
          /\ mix'.pairs = fm_ptr \div 2]_vars

\* a register access at a target inside the span of a sample already held
C16_Witness ==
  /\ AfterAccess
  /\ Positions(calls, IsGenerate) = {}
  /\ fm_ptr > 0
  /\ op[2] > fm_cycles_start
  /\ op[2] <= fm_cycles_count

\* C17: in every state reached by sound_reset, register accesses,
\* sound_update, and save and load at frame boundaries, the number of pairs
\* between the buffer start and fm_ptr, times the ratio, is fm_cycles_count
\* - fm_cycles_start; right after sound_reset, sound_update and load the
\* buffer is empty and fm_cycles_count = fm_cycles_start.
C17_BufferCounterCoupling ==
  Ready =>
    /\ fm_ptr % 2 = 0
    /\ (fm_ptr \div 2) * fm_cycles_ratio = fm_cycles_count - fm_cycles_start
    /\ op[1] \in {"sound_reset", "sound_update", "sound_context_load"} =>
         /\ fm_ptr = 0
         /\ fm_cycles_count = fm_cycles_start

\* pairs pending in a later frame of the session, generated by two register
\* accesses
C17_Witness ==
  /\ AfterAccess
  /\ frames > 0
  /\ fm_ptr >= 4
  /\ Requested(calls) >= 1
  /\ Requested(calls) < fm_ptr \div 2
  /\ fm_cycles_count = fm_cycles_start + (fm_ptr \div 2) * fm_cycles_ratio

\* C18: a sound_update(F) called with F > fm_cycles_start leaves
\* 0 <= fm_cycles_start < ratio; hence, fm_cycles_start being 0 after
\* sound_reset, a frame of length >= ratio that starts with a residual below
\* the ratio leaves a residual below the ratio.
C18_BoundedResidual ==
  /\ op[1] = "sound_reset" => fm_cycles_start = 0
  /\ (AfterFrame /\ mix.cycles > mix.start) =>
       /\ 0 <= fm_cycles_start
       /\ fm_cycles_start < fm_cycles_ratio
  /\ (AfterFrame /\ mix.cycles >= fm_cycles_ratio /\ mix.start < fm_cycles_ratio) =>
       /\ 0 <= fm_cycles_start
       /\ fm_cycles_start < fm_cycles_ratio

\* a frame longer than the nonzero residual it began with left another
\* nonzero residual
C18_Witness ==
  /\ AfterFrame
  /\ mix.start > 0
  /\ mix.cycles > mix.start
  /\ fm_cycles_start # mix.start
  /\ fm_cycles_start > 0
  /\ fm_cycles_start < fm_cycles_ratio

\* C19: over the frames since the reset, each longer than the residual it
\* began with and with no register access timed after its end, the samples
\* requested from YM_Update, times the ratio, are the cycles of the frames
\* plus the residual fm_cycles_start, and as many deltas were submitted as
\* samples were requested.
C19_NoDrift ==
  (AfterFrame /\ totals.regular) =>
    /\ totals.samples * fm_cycles_ratio = totals.cycles + fm_cycles_start
    /\ totals.samples = totals.deltas

\* three frames of different lengths, register accesses among them, ending
\* on a nonzero residual
C19_Witness ==
  /\ AfterFrame
  /\ totals.regular
  /\ frames = 3
  /\ ops = 2
  /\ totals.cycles > 3 * fm_cycles_ratio + 1
  /\ fm_cycles_start > 0
  /\ totals.samples * fm_cycles_ratio = totals.cycles + fm_cycles_start

\* C20: while every cycle target since the buffer was last emptied is at
\* most Capacity * ratio, fm_ptr does not pass the end of fm_buffer and no
\* pair is written beyond it; fm_update makes no bounds check: a target more
\* than Capacity * ratio cycles after the frame-start takes fm_ptr past the
\* end.
C20_WithinCapacity ==
  Ready =>
    /\ maxTarget <= Capacity * fm_cycles_ratio =>
         /\ fm_ptr \div 2 <= Capacity
         /\ Len(fm_buffer) <= Capacity
    /\ maxTarget > fm_cycles_start + Capacity * fm_cycles_ratio =>
         fm_ptr \div 2 > Capacity

\* a register access at the last cycle the buffer can hold filled it
\* exactly, in the build with the larger buffer
C20_Witness ==
  /\ AfterAccess
  /\ Requested(calls) > 0
  /\ op[2] = Capacity * fm_cycles_ratio
  /\ fm_ptr \div 2 = Capacity
  /\ Len(fm_buffer) = Capacity
  /\ Capacity = 25920

====
